---- MODULE Spec2Model ----
(***************************************************************************)
(* Tenant resolution of the SmartCare HMS backend: the request pipeline of *)
(* settings.MIDDLEWARE (TenantMainMiddleware, then HeaderTenantMiddleware, *)
(* then the view) on one worker thread, over the tenant registry kept in   *)
(* the public schema; the administration of the registry; the creation    *)
(* and deletion of tenant schemas, by one process and by several at once;  *)
(* the login of global users with a second factor; the lockout of tenant   *)
(* users; and utils.tenant_context.                                        *)
(*                                                                         *)
(* Strings that the code inspects are sequences: a tenant code and a       *)
(* schema name are sequences of characters, a header value is a sequence   *)
(* of characters, a path is the sequence of its "/" separators and         *)
(* segments.                                                               *)
(***************************************************************************)
EXTENDS Integers, Sequences, FiniteSets, TLC

VARIABLES
    tenants,        \* rows of tenants_tenant
    domains,        \* rows of tenants_tenantdomain
    tenant_user,    \* GlobalUser -> id of the tenant of its TenantUser, 0 = no row
    DEBUG,          \* settings.DEBUG of this deployment
    connection,     \* django.db.connection of the worker: schema_name, tenant
    thread_tenant,  \* middleware._thread_locals.tenant (None when unset)
    request,        \* the request in flight or just finished, else NoRequest
    pc,             \* position of the request in the pipeline
    outcome,        \* how the request in flight (or the last one) was resolved
    steps,          \* resolver steps HeaderTenantMiddleware ran for this request
    response,       \* status of the request just finished, else "none"
    prev,           \* outcome of the request that finished before the current one
    schemas,        \* names of the schemas that exist in the database
    tables,         \* names of the schemas that hold a tenants_tenantuser table
    search_path,    \* search_path of the session that runs schema provisioning
    departments,    \* ids of the tenants that have their default departments
    last,           \* the administrative operation or login that ran last
    runs,           \* the create_tenant_schema commands running side by side
    id_seq,         \* last value the sequence of tenants_tenant.id gave out
    stdin,          \* answer the last delete_tenant_schema command read, if any
    two_fa,         \* GlobalUser.two_fa_enabled and the User2FA row of the user
    flow,           \* what the login flow in progress has checked so far
    issued,         \* the tokens the login and verify-2fa endpoints answered
    account,        \* TenantUser row: is_active, failed attempts, lock
    now,            \* timezone.now(), in minutes
    attempts,       \* the authenticate calls made on the account so far
    contexts,       \* TenantContext objects constructed and not yet entered
    blocks,         \* with tenant_context blocks entered, innermost last
    restored        \* the with tenant_context block that exited last

vars == <<tenants, domains, tenant_user, DEBUG, connection, thread_tenant,
          request, pc, outcome, steps, response, prev,
          schemas, tables, search_path, departments, last, runs,
          id_seq, stdin, two_fa, flow, issued, account, now, attempts,
          contexts, blocks, restored>>

(***************************************************************************)
(* Bounds                                                                  *)
(***************************************************************************)
MaxTenants == 2

(***************************************************************************)
(* Strings                                                                 *)
(***************************************************************************)
Range(s) == {s[i] : i \in DOMAIN s}

StartsWith(s, p) == Len(p) <= Len(s) /\ SubSeq(s, 1, Len(p)) = p

UpperChar(c) ==
    CASE c = "l" -> "L" [] c = "a" -> "A" [] c = "g" -> "G"
      [] c = "t" -> "T" [] c = "e" -> "E" [] c = "s" -> "S"
      [] OTHER -> c

LowerChar(c) ==
    CASE c = "L" -> "l" [] c = "A" -> "a" [] c = "G" -> "g"
      [] c = "T" -> "t" [] c = "E" -> "e" [] c = "S" -> "s"
      [] c = "P" -> "p" [] c = "U" -> "u" [] c = "B" -> "b"
      [] c = "I" -> "i" [] c = "C" -> "c"
      [] c = "Y" -> "y" [] c = "N" -> "n" [] c = "O" -> "o"
      [] OTHER -> c

\* str.upper() and str.lower()
upper(s) == [i \in DOMAIN s |-> UpperChar(s[i])]

lower(s) == [i \in DOMAIN s |-> LowerChar(s[i])]

Digits == {"0", "1", "2", "3", "4", "5", "6", "7", "8", "9"}

DigitVal(c) ==
    CASE c = "0" -> 0 [] c = "1" -> 1 [] c = "2" -> 2 [] c = "3" -> 3
      [] c = "4" -> 4 [] c = "5" -> 5 [] c = "6" -> 6 [] c = "7" -> 7
      [] c = "8" -> 8 [] c = "9" -> 9

RECURSIVE Strip(_)
Strip(s) ==
    IF s = <<>> THEN s
    ELSE IF Head(s) = " " THEN Strip(Tail(s))
    ELSE IF s[Len(s)] = " " THEN Strip(SubSeq(s, 1, Len(s) - 1))
    ELSE s

RECURSIVE DecimalValue(_)
DecimalValue(s) ==
    IF s = <<>> THEN 0
    ELSE 10 * DecimalValue(SubSeq(s, 1, Len(s) - 1)) + DigitVal(s[Len(s)])

\* Python int(str): surrounding whitespace is ignored, one optional sign, then
\* at least one decimal digit; anything else raises ValueError (ok = FALSE).
int(s) ==
    LET t == Strip(s)
        signed == t # <<>> /\ Head(t) \in {"+", "-"}
        body == IF signed THEN Tail(t) ELSE t
        valid == body # <<>> /\ \A i \in DOMAIN body : body[i] \in Digits
    IN  IF ~valid THEN [ok |-> FALSE, val |-> 0]
        ELSE [ok |-> TRUE,
              val |-> IF signed /\ Head(t) = "-" THEN 0 - DecimalValue(body)
                      ELSE DecimalValue(body)]

(***************************************************************************)
(* Settings                                                                *)
(***************************************************************************)
\* Python None where a tenant, a tenant id or a claim is expected
None == 0

\* request.headers.get('X-Tenant-ID') when the header was not sent
NoHeader == <<"None">>

PUBLIC_SCHEMA_NAME == <<"p", "u", "b", "l", "i", "c">>

PUBLIC_SCHEMA_URLS == <<
    <<"/", "api", "/", "v1", "/", "auth", "/">>,
    <<"/", "api", "/", "v1", "/", "core", "/">>,
    <<"/", "api", "/", "v1", "/", "tenants", "/", "active-tenants", "/">>,
    <<"/", "api", "/", "v1", "/", "tenants", "/", "invitations", "/", "accept", "/">>,
    <<"/", "admin", "/">>,
    <<"/", "api", "/", "docs", "/">>,
    <<"/", "swagger", "/">>,
    <<"/", "redoc", "/">>,
    <<"/", "test-public", "/">> >>

\* hosts of settings.ALLOWED_HOSTS; any other Host header is refused by
\* CommonMiddleware before the tenant middlewares run
ALLOWED_HOSTS == {"localhost", "127.0.0.1", "admin.smartcarehms.local",
                  "lagosgeneral.smartcarehms.local"}

(***************************************************************************)
(* Tenant registry                                                         *)
(***************************************************************************)
TEST == <<"T", "E", "S", "T">>

\* Tenant.SubscriptionStatus
ACTIVE == "active"

TRIAL == "trial"

SUSPENDED == "suspended"

CANCELLED == "cancelled"

EXPIRED == "expired"

SubscriptionStatus == {ACTIVE, TRIAL, SUSPENDED, CANCELLED, EXPIRED}

\* Tenant.generate_tenant_code: first three letters of the name in upper case
\* followed by four random digits
generate_tenant_code(name, random_part) ==
    upper(SubSeq(name, 1, IF Len(name) < 3 THEN Len(name) ELSE 3)) \o random_part

\* Tenant.generate_schema_name
generate_schema_name(code) ==
    <<"t", "e", "n", "a", "n", "t", "_">> \o lower(code)

\* Tenant.save: code and schema_name are generated when empty
save(t) ==
    LET code == IF t.code = <<>> THEN generate_tenant_code(t.name, t.random_part)
                ELSE t.code
        schema_name == IF t.schema_name = <<>> THEN generate_schema_name(code)
                       ELSE t.schema_name
    IN  [id |-> t.id, name |-> t.name, code |-> code,
         schema_name |-> schema_name, domain |-> t.domain,
         subscription_status |-> t.subscription_status,
         subscription_end_date |-> t.subscription_end_date]

\* unique=True on name, code, domain and schema_name
Unique(t) ==
    \A u \in tenants :
        /\ u.name # t.name
        /\ u.code # t.code
        /\ u.domain # t.domain
        /\ u.schema_name # t.schema_name

\* the id the database gives the next row of tenants_tenant; ids of deleted
\* rows are not given out again
NextId == id_seq + 1

TenantIds == {t.id : t \in tenants}

TenantById(id) == CHOOSE t \in tenants : t.id = id


(***************************************************************************)
(* Requests                                                                *)
(***************************************************************************)
Users == {"u1"}

AnonymousUser == "AnonymousUser"

Paths == {
    <<"/", "api", "/", "v1", "/", "auth", "/", "login", "/">>,
    <<"/", "api", "/", "v1", "/", "patients", "/">>,
    <<"/", "admin">> }

\* values of the X-Tenant-ID header
HeaderValues == {NoHeader, <<"1">>, <<" ", "2">>, <<"7">>, <<"1", "a">>}

\* host is the hostname TenantMainMiddleware.hostname_from_request extracts;
\* tenant is request.tenant; user is the session user AuthenticationMiddleware
\* finds; token is the tenant_id claim of the bearer token in the
\* Authorization header, None when no token is sent
Requests ==
    [path : Paths, header : HeaderValues, user : Users \cup {AnonymousUser},
     host : ALLOWED_HOSTS \ {"admin.smartcarehms.local"}, tenant : {None},
     token : {None}]

\* tenant_id claims of the tokens AuthenticationView.authenticate_tenant_user
\* issues: refresh['tenant_id'] = tenant.id
TokenClaims == {1, 2}

\* requests of an API client that holds such a token: no session cookie, so
\* the session user is AnonymousUser
BearerRequests ==
    [path : Paths, header : {NoHeader}, user : {AnonymousUser},
     host : ALLOWED_HOSTS \ {"admin.smartcarehms.local"}, tenant : {None},
     token : TokenClaims]

NoRequest ==
    [path |-> <<>>, header |-> NoHeader, user |-> AnonymousUser,
     host |-> "", tenant |-> None, token |-> None]

NoOutcome == [kind |-> "none", tenant |-> None, by |-> "none"]

(***************************************************************************)
(* django_tenants connection                                               *)
(***************************************************************************)
\* connection.set_schema_to_public(): connection.tenant becomes the FakeTenant
\* of the public schema, written None
set_schema_to_public == [schema_name |-> PUBLIC_SCHEMA_NAME, tenant |-> None]

\* connection.set_tenant(tenant)
set_tenant(t) == [schema_name |-> t.schema_name, tenant |-> t.id]

(***************************************************************************)
(* TenantMainMiddleware.process_request (django_tenants), as configured:   *)
(* the connection is put on public first; SHOW_PUBLIC_IF_NO_TENANT_FOUND   *)
(* is not set, so a hostname without TenantDomain row raises Http404.      *)
(***************************************************************************)
TenantMain_show_public(req, conn) ==
    LET rows == {d \in domains : d.domain = req.host}
    IN  IF rows = {}
        THEN [raised |-> FALSE, connection |-> set_schema_to_public, tenant |-> None]
        ELSE LET t == TenantById((CHOOSE d \in rows : TRUE).tenant)
             IN  [raised |-> FALSE, connection |-> set_tenant(t), tenant |-> t.id]

TenantMain_no_reset(req, conn) ==
    LET rows == {d \in domains : d.domain = req.host}
    IN  IF rows = {}
        THEN [raised |-> TRUE, connection |-> conn, tenant |-> None]
        ELSE LET t == TenantById((CHOOSE d \in rows : TRUE).tenant)
             IN  [raised |-> FALSE, connection |-> set_tenant(t), tenant |-> t.id]

TenantMain_process_request(req, conn) ==
    LET rows == {d \in domains : d.domain = req.host}
    IN  IF rows = {}
        THEN [raised |-> TRUE, connection |-> set_schema_to_public, tenant |-> None]
        ELSE LET t == TenantById((CHOOSE d \in rows : TRUE).tenant)
             IN  [raised |-> FALSE, connection |-> set_tenant(t), tenant |-> t.id]

(***************************************************************************)
(* HeaderTenantMiddleware.process_request                                  *)
(***************************************************************************)
is_public(path) == \E url \in Range(PUBLIC_SCHEMA_URLS) : StartsWith(path, url)

\* the lookup of the header step restricted to tenants in service
header_lookup_in_service(req) ==
    LET parsed == int(req.header)
        in_service == {t.id : t \in {u \in tenants :
                                       u.subscription_status \in {ACTIVE, TRIAL}}}
    IN  IF ~parsed.ok THEN [exc |-> "ValueError", tenant |-> None]
        ELSE IF parsed.val \notin in_service THEN [exc |-> "DoesNotExist", tenant |-> None]
        ELSE [exc |-> "none", tenant |-> parsed.val]

\* Tenant.objects.get(id=int(tenant_id)) of the header step: the tenant found,
\* or the exception raised
header_lookup(req) ==
    LET parsed == int(req.header)
    IN  IF ~parsed.ok THEN [exc |-> "ValueError", tenant |-> None]
        ELSE IF parsed.val \notin TenantIds THEN [exc |-> "DoesNotExist", tenant |-> None]
        ELSE [exc |-> "none", tenant |-> parsed.val]

\* except (Tenant.DoesNotExist, ValueError): pass
HeaderExcept_only_missing == {"DoesNotExist"}

HeaderExcept == {"DoesNotExist", "ValueError"}

\* getattr(request.user, 'tenant_id', None) when the middleware runs:
\* request.user is the session user put there by AuthenticationMiddleware, a
\* GlobalUser row or AnonymousUser; neither has a tenant_id attribute
user_tenant_id(req) == None

\* one entry of the record of resolver steps: the step, whether it resolved
\* the request, and the thread-local tenant and schema after it
Step(name, hit, conn, tl) ==
    [step |-> name, hit |-> hit, schema_name |-> conn.schema_name, tenant |-> tl]

Result(raised, kind, tenant, by, conn, tl, done) ==
    [raised |-> raised, kind |-> kind, tenant |-> tenant, by |-> by,
     connection |-> conn, thread_tenant |-> tl,
     steps |-> Append(done, Step(by, kind # "error", conn, tl))]

\* set_current_tenant(tenant); connection.set_tenant(tenant); return
Resolved_no_switch(t, by, done) ==
    Result(FALSE, "tenant", t.id, by, set_schema_to_public, t.id, done)

Resolved(t, by, done) ==
    Result(FALSE, "tenant", t.id, by, set_tenant(t), t.id, done)

process_request(req, conn, tl) ==
    IF is_public(req.path)
    THEN Result(FALSE, "public", None, "public_path", set_schema_to_public, tl, <<>>)
    ELSE
    LET s1 == <<Step("public_path", FALSE, conn, tl)>>
        found == IF req.header \notin {NoHeader, <<>>} THEN header_lookup(req)
                 ELSE [exc |-> "absent", tenant |-> None]
    IN  IF found.exc = "none"
        THEN Resolved(TenantById(found.tenant), "header", s1)
        ELSE IF found.exc \notin HeaderExcept \cup {"absent"}
        THEN Result(TRUE, "error", None, "header", conn, tl, s1)
        ELSE
    LET s2 == Append(s1, Step("header", FALSE, conn, tl))
        test == {t \in tenants : t.code = TEST}
    IN  IF test # {}
        THEN Resolved(CHOOSE t \in test : TRUE, "fallback", s2)
        ELSE
    LET s3 == Append(s2, Step("fallback", FALSE, conn, tl))
        claim == user_tenant_id(req)
    IN  IF req.user # AnonymousUser
        THEN IF claim # None /\ claim \in TenantIds
             THEN Resolved(TenantById(claim), "claim", s3)
             ELSE
             LET s4 == Append(s3, Step("claim", FALSE, conn, tl))
             IN  IF tenant_user[req.user] # None
                 THEN Resolved(TenantById(tenant_user[req.user]), "membership", s4)
                 ELSE Result(FALSE, "public", None, "authenticated_public",
                             set_schema_to_public, tl,
                             Append(s4, Step("membership", FALSE, conn, tl)))
        ELSE
    LET main == TenantMain_process_request(req, conn)
    IN  Result(main.raised, IF main.raised THEN "error" ELSE "tenant",
               main.tenant, "domain", main.connection, tl, s3)

\* middleware.get_current_tenant()
get_current_tenant == thread_tenant

\* the record kept of an administrative operation or login: the operation,
\* the ids of the tenants it concerned, their rows before the operation, the
\* actions of the AuditLog rows it wrote, whether it answered with tokens,
\* the exception it ended with, and the message it answered or wrote
Operation(op, tenant, before, audit_log, tokens, error, message) ==
    [op |-> op, tenant |-> tenant, before |-> before, audit_log |-> audit_log,
     tokens |-> tokens, error |-> error, message |-> message]

NoOperation == Operation("none", {}, {}, <<>>, FALSE, "none", "")

Database == <<schemas, tables, search_path>>

\* processes that run the create_tenant_schema command side by side, each
\* with a database session of its own
Procs == {1, 2}

\* one such process: where it is in Command.handle, the tenant_id it was
\* given, the search_path of its session, the exception it ended with and
\* the last message it wrote
Run(at, tenant_id, path, error, message) ==
    [pc |-> at, tenant_id |-> tenant_id, search_path |-> path, error |-> error,
     message |-> message]

NoRun == Run("idle", None, PUBLIC_SCHEMA_NAME, "none", "")

\* state of the processes the worker and the administrator do not touch
AuthVars == <<two_fa, flow, issued>>

LockVars == <<account, now, attempts>>

ContextVars == <<contexts, blocks, restored>>

Elsewhere == <<runs, stdin, AuthVars, LockVars, ContextVars>>

\* input() was not called
NotAsked == <<"not asked">>

\* GlobalUser.two_fa_enabled and the fields of the user's User2FA row that
\* TwoFASerializer reads; totp_secret is whether a secret is stored
TwoFA(enabled, totp_secret, sms_verified, email_verified, failed_attempts) ==
    [two_fa_enabled |-> enabled, totp_secret |-> totp_secret,
     sms_verified |-> sms_verified, email_verified |-> email_verified,
     failed_attempts |-> failed_attempts]

\* no login flow in progress: no password was checked
NoFlow == [password_checked |-> FALSE]

\* TenantUser row as created: is_active, failed_login_attempts = 0,
\* account_locked_until = None
NewAccount == [is_active |-> TRUE, failed_login_attempts |-> 0,
               account_locked_until |-> None]

\* no authenticate call was made yet: the failed password attempts in a row,
\* what the last call returned, whether the account was locked when it was
\* made, and when it was made
NoAttempt == [failed_in_a_row |-> 0, returned |-> "none", locked |-> FALSE, at |-> 0]

\* no with tenant_context block has exited yet; before is the connection
\* right before the block was entered, after the connection at its exit
NoExit == [exited |-> FALSE, raised |-> FALSE, before |-> set_schema_to_public,
           after |-> set_schema_to_public]

\* the login endpoints of global users are not in use
AuthQuiet ==
    /\ two_fa = TwoFA(FALSE, FALSE, FALSE, FALSE, 0)
    /\ flow = NoFlow
    /\ issued = {}

\* TenantAuthenticationBackend is not in use
LockQuiet ==
    /\ account = NewAccount
    /\ now = 0
    /\ attempts = NoAttempt

\* utils.tenant_context is not in use
ContextQuiet ==
    /\ contexts = {}
    /\ blocks = <<>>
    /\ restored = NoExit

Quiet == AuthQuiet /\ LockQuiet /\ ContextQuiet

(***************************************************************************)
(* Initial state: a fresh deployment, empty registry, idle worker whose    *)
(* connection is on the public schema.                                     *)
(***************************************************************************)
Init ==
    /\ tenants = {}
    /\ domains = {}
    /\ tenant_user = [u \in Users |-> None]
    /\ DEBUG \in BOOLEAN
    /\ connection = set_schema_to_public
    /\ thread_tenant = None
    /\ request = NoRequest
    /\ pc = "idle"
    /\ outcome = NoOutcome
    /\ steps = <<>>
    /\ response = "none"
    /\ prev = NoOutcome
    /\ schemas = {PUBLIC_SCHEMA_NAME}
    /\ tables = {PUBLIC_SCHEMA_NAME}
    /\ search_path = PUBLIC_SCHEMA_NAME
    /\ departments = {}
    /\ last = NoOperation
    /\ runs = [p \in Procs |-> NoRun]
    /\ id_seq = 0
    /\ stdin = NotAsked
    /\ Quiet

(***************************************************************************)
(* Registry operations.  They run between two requests of the worker; the  *)
(* record of the request just finished ends with them.                     *)
(***************************************************************************)
Idle ==
    /\ pc = "idle"
    /\ request' = NoRequest
    /\ steps' = <<>>
    /\ response' = "none"
    /\ UNCHANGED <<DEBUG, connection, thread_tenant, pc, outcome, prev>>

BetweenRequests == Idle /\ UNCHANGED Elsewhere

Insert(t) ==
    /\ id_seq < MaxTenants
    /\ Unique(t)
    /\ tenants' = tenants \cup {t}
    /\ id_seq' = t.id

\* tenants_setup.py: the public tenant and its localhost domain
tenants_setup ==
    /\ BetweenRequests
    /\ LET existing == {t \in tenants : t.schema_name = PUBLIC_SCHEMA_NAME}
           new == save([id |-> NextId, name |-> <<"P", "u", "b", "l", "i", "c">>,
                        code |-> <<"P", "U", "B", "L", "I", "C">>,
                        schema_name |-> PUBLIC_SCHEMA_NAME, domain |-> "",
                        subscription_status |-> TRIAL,
                        subscription_end_date |-> None,
                        random_part |-> <<>>])
           public_tenant == IF existing # {} THEN CHOOSE t \in existing : TRUE ELSE new
       IN  /\ IF existing # {} THEN UNCHANGED <<tenants, id_seq>> ELSE Insert(new)
           /\ ~ \E d \in domains : d.domain = "localhost"
           /\ domains' = domains \cup {[domain |-> "localhost",
                                        tenant |-> public_tenant.id]}
    /\ UNCHANGED <<tenant_user, Database, departments, last>>

\* scripts/setup_test_tenant.py: Tenant.objects.get_or_create(code='TEST', ...)
\* and CREATE SCHEMA IF NOT EXISTS for the schema of that tenant
setup_test_tenant ==
    /\ BetweenRequests
    /\ ~ \E t \in tenants : t.code = TEST
    /\ LET tenant == save([id |-> NextId, name |-> <<"T", "e", "s", "t">>,
                           code |-> TEST, schema_name |-> <<>>,
                           domain |-> "test.smartcarehms.local",
                           subscription_status |-> TRIAL,
                           subscription_end_date |-> None,
                           random_part |-> <<>>])
       IN  /\ Insert(tenant)
           /\ schemas' = schemas \cup {tenant.schema_name}
    /\ UNCHANGED <<domains, tenant_user, tables, search_path, departments, last>>

\* request bodies of POST /api/v1/tenants/tenants/
TenantBodies ==
    [name : {<<"L", "a", "g", "o", "s">>},
     domain : {"lagosgeneral.smartcarehms.local"},
     subscription_status : {TRIAL, ACTIVE, CANCELLED}]

\* validated_data if subscription_status were writable
validated_data_with_status(body) ==
    [name |-> body.name, domain |-> body.domain, code |-> <<>>,
     schema_name |-> <<>>, subscription_status |-> body.subscription_status,
     subscription_end_date |-> None]

\* TenantSerializer.Meta.read_only_fields: code, schema_name and
\* subscription_status of the body never reach validated_data, so the row is
\* built with empty code and schema_name (generated by save) and with the
\* model default of subscription_status
validated_data(body) ==
    [name |-> body.name, domain |-> body.domain, code |-> <<>>,
     schema_name |-> <<>>, subscription_status |-> TRIAL,
     subscription_end_date |-> None]

\* outcomes of random.choices(string.digits, k=4)
RandomParts == {<<"0", "4", "1", "7">>}

\* TenantViewSet.create -> perform_create -> TenantSerializer.create, all in
\* one transaction.atomic(): the Tenant row, its TenantSetting and default
\* departments, the AuditLog row and the initial admin TenantUser.  An
\* IntegrityError of the row or of the admin user rolls everything back.
\* Neither Tenant.create_schema nor utils.create_tenant_schema is called.
TenantViewSet_create ==
    /\ BetweenRequests
    /\ id_seq < MaxTenants
    /\ \E body \in TenantBodies, random_part \in RandomParts, admin_user_ok \in BOOLEAN :
          LET data == validated_data(body)
              tenant == save([id |-> NextId, name |-> data.name, code |-> data.code,
                              schema_name |-> data.schema_name, domain |-> data.domain,
                              subscription_status |-> data.subscription_status,
                              subscription_end_date |-> data.subscription_end_date,
                              random_part |-> random_part])
          IN  IF Unique(tenant) /\ admin_user_ok
              THEN /\ tenants' = tenants \cup {tenant}
                   /\ id_seq' = tenant.id
                   /\ departments' = departments \cup {tenant.id}
                   /\ last' = Operation("create", {tenant.id}, {},
                                        <<"create_tenant">>, FALSE, "none", "201")
              ELSE /\ UNCHANGED <<tenants, id_seq, departments>>
                   /\ last' = Operation("create", {}, {}, <<>>, FALSE,
                                        "IntegrityError", "")
    /\ UNCHANGED <<domains, tenant_user, Database>>

\* scripts/add_tenant_domain.py
add_tenant_domain ==
    /\ BetweenRequests
    /\ LET tenant_domain == "lagosgeneral.smartcarehms.local"
           found == {t \in tenants : t.domain = tenant_domain}
       IN  /\ found # {}
           /\ ~ \E d \in domains : d.domain = tenant_domain
           /\ domains' = domains \cup
                 {[domain |-> tenant_domain, tenant |-> (CHOOSE t \in found : TRUE).id]}
    /\ UNCHANGED <<tenants, tenant_user, Database, departments, last, id_seq>>

\* a TenantUser row is linked to a GlobalUser (TenantUser.global_user)
link_tenant_user ==
    /\ BetweenRequests
    /\ \E u \in Users, t \in tenants :
          /\ tenant_user[u] = None
          /\ tenant_user' = [tenant_user EXCEPT ![u] = t.id]
    /\ UNCHANGED <<tenants, domains, Database, departments, last, id_seq>>

(***************************************************************************)
(* The request pipeline of one worker thread                               *)
(***************************************************************************)
Registry == <<tenants, domains, tenant_user, DEBUG, Database, departments, Elsewhere,
              id_seq>>

\* a request enters the worker; the middlewares listed before the tenant
\* middlewares touch neither the connection nor the thread-local tenant
StartRequest ==
    /\ pc = "idle"
    /\ \E r \in Requests : request' = r
    /\ pc' = "TenantMainMiddleware"
    /\ prev' = outcome
    /\ outcome' = NoOutcome
    /\ steps' = <<>>
    /\ response' = "none"
    /\ last' = NoOperation
    /\ UNCHANGED <<Registry, connection, thread_tenant>>

\* a request with an Authorization: Bearer header enters the worker
StartBearerRequest ==
    /\ pc = "idle"
    /\ \E r \in BearerRequests : request' = r
    /\ pc' = "TenantMainMiddleware"
    /\ prev' = outcome
    /\ outcome' = NoOutcome
    /\ steps' = <<>>
    /\ response' = "none"
    /\ last' = NoOperation
    /\ UNCHANGED <<Registry, connection, thread_tenant>>

TenantMainMiddleware ==
    /\ pc = "TenantMainMiddleware"
    /\ LET r == TenantMain_process_request(request, connection)
       IN  /\ connection' = r.connection
           /\ request' = [request EXCEPT !.tenant = r.tenant]
           /\ IF r.raised
              THEN /\ pc' = "idle"
                   /\ response' = "404"
                   /\ outcome' = [kind |-> "error", tenant |-> None,
                                  by |-> "TenantMainMiddleware"]
              ELSE /\ pc' = "HeaderTenantMiddleware"
                   /\ UNCHANGED <<response, outcome>>
    /\ UNCHANGED <<Registry, thread_tenant, steps, prev, last>>

HeaderTenantMiddleware ==
    /\ pc = "HeaderTenantMiddleware"
    /\ LET r == process_request(request, connection, thread_tenant)
       IN  /\ connection' = r.connection
           /\ thread_tenant' = r.thread_tenant
           /\ steps' = r.steps
           /\ outcome' = [kind |-> r.kind, tenant |-> r.tenant, by |-> r.by]
           /\ request' = IF r.by = "domain" /\ ~r.raised
                         THEN [request EXCEPT !.tenant = r.tenant] ELSE request
           /\ IF r.raised
              THEN pc' = "idle" /\ response' = "404"
              ELSE pc' = "view" /\ UNCHANGED response
    /\ UNCHANGED <<Registry, prev, last>>

\* the downstream handler answers or raises; neither middleware has a
\* process_response or process_exception hook
get_response ==
    /\ pc = "view"
    /\ \E status \in {"200", "500"} : response' = status
    /\ pc' = "idle"
    /\ UNCHANGED <<Registry, connection, thread_tenant, request, outcome, steps, prev,
                   last>>

(***************************************************************************)
(* Tenant administration: update, lifecycle actions of the API and of the  *)
(* admin site.  Tenant.is_active is declared as a BooleanField and again   *)
(* as a method further down the class body; the later binding wins, so the *)
(* model has no is_active column and the assignments tenant.is_active =    *)
(* ... of the lifecycle actions set an attribute of the instance that      *)
(* save() does not store.                                                  *)
(***************************************************************************)
\* a primary key that names no tenant
MissingId == 7

SetStatus(ids, status) ==
    {IF t.id \in ids THEN [t EXCEPT !.subscription_status = status] ELSE t :
        t \in tenants}

\* values of subscription_end_date in the body of an update
EndDates == {None, 2}

\* bodies of PUT/PATCH /api/v1/tenants/tenants/{id}/
UpdateBodies ==
    [schema_name : {<<"t", "e", "n", "a", "n", "t", "_", "x">>},
     subscription_status : {ACTIVE, EXPIRED}, subscription_end_date : EndDates]

\* validated_data of an update if no field were read-only
update_validated_data_all_writable(body) == body

\* validated_data of an update: schema_name and subscription_status of the
\* body are dropped, TenantSerializer.Meta.read_only_fields
update_validated_data(body) ==
    [subscription_end_date |-> body.subscription_end_date]

\* ModelSerializer.update: setattr(instance, attr, value) for the validated
\* data
setattrs(instance, data) ==
    [f \in DOMAIN instance |-> IF f \in DOMAIN data THEN data[f] ELSE instance[f]]

\* TenantViewSet.update -> perform_update: serializer.save() writes the
\* writable fields of the body through Tenant.save, then the AuditLog row
TenantViewSet_update ==
    /\ BetweenRequests
    /\ \E tenant \in tenants, body \in UpdateBodies :
          /\ tenants' = (tenants \ {tenant}) \cup
                {save(setattrs(tenant, update_validated_data(body)))}
          /\ last' = Operation("update", {tenant.id}, {tenant}, <<"update_tenant">>,
                               FALSE, "none", "200")
    /\ UNCHANGED <<domains, tenant_user, Database, departments, id_seq>>

\* get_object() of a detail route followed by an unconditional status write,
\* tenant.save() and the AuditLog row
WriteStatus(op, status, audit, message) ==
    \E pk \in TenantIds \cup {MissingId} :
        IF pk \notin TenantIds
        THEN /\ UNCHANGED tenants
             /\ last' = Operation(op, {}, {}, <<>>, FALSE, "Http404", "404")
        ELSE /\ tenants' = SetStatus({pk}, status)
             /\ last' = Operation(op, {pk}, {TenantById(pk)}, <<audit>>, FALSE,
                                  "none", message)

\* TenantViewSet.suspend
suspend ==
    /\ BetweenRequests
    /\ WriteStatus("suspend", SUSPENDED, "suspend_tenant", "Tenant suspended successfully")
    /\ UNCHANGED <<domains, tenant_user, Database, departments, id_seq>>

\* TenantViewSet.activate
activate ==
    /\ BetweenRequests
    /\ WriteStatus("activate", ACTIVE, "activate_tenant", "Tenant activated successfully")
    /\ UNCHANGED <<domains, tenant_user, Database, departments, id_seq>>

\* TenantViewSet.cancel
cancel ==
    /\ BetweenRequests
    /\ WriteStatus("cancel", CANCELLED, "cancel_tenant", "Tenant subscription cancelled")
    /\ UNCHANGED <<domains, tenant_user, Database, departments, id_seq>>

\* queryset.update(subscription_status=...) of an admin bulk action on the
\* selected rows; no AuditLog row is written
UpdateStatus(op, status, message) ==
    \E queryset \in (SUBSET tenants) \ {{}} :
        /\ tenants' = SetStatus({t.id : t \in queryset}, status)
        /\ last' = Operation(op, {t.id : t \in queryset}, queryset, <<>>, FALSE,
                             "none", message)

\* TenantAdmin.activate_tenants
activate_tenants ==
    /\ BetweenRequests
    /\ UpdateStatus("activate_tenants", ACTIVE, "tenant(s) activated.")
    /\ UNCHANGED <<domains, tenant_user, Database, departments, id_seq>>

\* TenantAdmin.suspend_tenants
suspend_tenants ==
    /\ BetweenRequests
    /\ UpdateStatus("suspend_tenants", SUSPENDED, "tenant(s) suspended.")
    /\ UNCHANGED <<domains, tenant_user, Database, departments, id_seq>>

\* TenantAdmin.cancel_subscriptions
cancel_subscriptions ==
    /\ BetweenRequests
    /\ UpdateStatus("cancel_subscriptions", CANCELLED, "tenant subscription(s) cancelled.")
    /\ UNCHANGED <<domains, tenant_user, Database, departments, id_seq>>

\* the change form of TenantAdmin: subscription_status is an editable field of
\* the Subscription fieldset
TenantAdmin_change ==
    /\ BetweenRequests
    /\ \E tenant \in tenants, status \in SubscriptionStatus :
          /\ tenants' = SetStatus({tenant.id}, status)
          /\ last' = Operation("change", {tenant.id}, {tenant}, <<>>, FALSE, "none",
                               "changed")
    /\ UNCHANGED <<domains, tenant_user, Database, departments, id_seq>>

\* Tenant.is_trial
is_trial(tenant) == tenant.subscription_status = TRIAL

\* the last day of the calendar the model looks at
MaxDay == 3

Days == 1 .. MaxDay

Max(a, b) == IF a >= b THEN a ELSE b

\* Tenant.days_remaining_in_trial without the clamp
days_remaining_unclamped(tenant, today) ==
    IF ~is_trial(tenant) THEN 0
    ELSE IF tenant.subscription_end_date = None THEN 30
    ELSE tenant.subscription_end_date - today

\* Tenant.days_remaining_in_trial, today being timezone.now().date()
days_remaining_in_trial(tenant, today) ==
    IF ~is_trial(tenant) THEN 0
    ELSE IF tenant.subscription_end_date = None THEN 30
    ELSE Max(0, tenant.subscription_end_date - today)

(***************************************************************************)
(* Schema provisioning.  The tables of the registry (tenants_tenant and    *)
(* the rest) were created in the public schema by the migrations.          *)
(***************************************************************************)
\* a relation named without schema is looked up in the schemas of the
\* search path; tenants_tenant exists in the public schema only
tenants_tenant_visible(path) == path = PUBLIC_SCHEMA_NAME

\* the database as a provisioning routine finds and leaves it, with the
\* exception the routine ended with and the last message it wrote
Provisioned(db_schemas, db_tables, path, error, message) ==
    [schemas |-> db_schemas, tables |-> db_tables, search_path |-> path,
     error |-> error, message |-> message]

\* utils.create_tenant_schema(tenant): CREATE SCHEMA IF NOT EXISTS, SET
\* search_path TO the schema, CREATE TABLE IF NOT EXISTS tenants_tenantuser
\* (... REFERENCES tenants_tenant(id) ...), SET search_path TO public.  The
\* CREATE TABLE is skipped when the table exists, and raises when the table
\* it references is not on the search path; the exception leaves the with
\* block before the search path is reset.
create_tenant_schema(tenant, db_schemas, db_tables) ==
    LET schema_name == tenant.schema_name
        created == db_schemas \cup {schema_name}
    IN  IF schema_name \in db_tables \/ tenants_tenant_visible(schema_name)
        THEN Provisioned(created, db_tables \cup {schema_name}, PUBLIC_SCHEMA_NAME,
                         "none", "returned")
        ELSE Provisioned(created, db_tables, schema_name, "ProgrammingError", "")

\* a call of utils.create_tenant_schema for a tenant of the registry
call_create_tenant_schema ==
    /\ BetweenRequests
    /\ \E tenant \in tenants :
          LET run == create_tenant_schema(tenant, schemas, tables)
          IN  /\ schemas' = run.schemas
              /\ tables' = run.tables
              /\ search_path' = run.search_path
              /\ last' = Operation("create_tenant_schema", {tenant.id}, {tenant},
                                   <<>>, FALSE, run.error, run.message)
    /\ UNCHANGED <<tenants, domains, tenant_user, departments, id_seq>>

\* management command create_tenant_schema, Command.handle: an unknown id and
\* an existing schema end the command with a message; otherwise CREATE SCHEMA,
\* SET search_path, and call_command('migrate', ..., schema_name=...), which
\* raises because migrate has no such option, before the search path is reset
handle(tenant_id, db_schemas, db_tables, path) ==
    IF tenant_id \notin TenantIds
    THEN Provisioned(db_schemas, db_tables, path, "none", "does not exist")
    ELSE LET schema_name == TenantById(tenant_id).schema_name
         IN  IF schema_name \in db_schemas
             THEN Provisioned(db_schemas, db_tables, path, "none", "already exists")
             ELSE Provisioned(db_schemas \cup {schema_name}, db_tables, schema_name,
                              "TypeError", "Created schema")

\* manage.py create_tenant_schema <tenant_id>
Command_handle ==
    /\ BetweenRequests
    /\ \E tenant_id \in TenantIds \cup {MissingId} :
          LET run == handle(tenant_id, schemas, tables, search_path)
              found == {t \in tenants : t.id = tenant_id}
          IN  /\ schemas' = run.schemas
              /\ tables' = run.tables
              /\ search_path' = run.search_path
              /\ last' = Operation("Command.handle", {t.id : t \in found}, found, <<>>,
                                   FALSE, run.error, run.message)
    /\ UNCHANGED <<tenants, domains, tenant_user, departments, id_seq>>

\* TenantViewSet.destroy -> perform_destroy: the AuditLog row, then
\* instance.delete(); the rows that reference the tenant with
\* on_delete=CASCADE (TenantDomain, TenantUser, Department, ...) go with it.
\* Neither Tenant.delete_schema, a stub, nor DROP SCHEMA is called.
TenantViewSet_destroy ==
    /\ BetweenRequests
    /\ \E pk \in TenantIds \cup {MissingId} :
          IF pk \notin TenantIds
          THEN /\ UNCHANGED <<tenants, domains, tenant_user, departments>>
               /\ last' = Operation("destroy", {}, {}, <<>>, FALSE, "Http404", "404")
          ELSE /\ tenants' = tenants \ {TenantById(pk)}
               /\ domains' = {d \in domains : d.tenant # pk}
               /\ tenant_user' = [u \in Users |->
                                     IF tenant_user[u] = pk THEN None ELSE tenant_user[u]]
               /\ departments' = departments \ {pk}
               /\ last' = Operation("destroy", {pk}, {TenantById(pk)},
                                    <<"delete_tenant">>, FALSE, "none", "204")
    /\ UNCHANGED <<Database, id_seq>>

\* answers typed at the prompt of the delete_tenant_schema command
Answers == {<<"y", "e", "s">>, <<"Y", "E", "S">>, <<"y">>, <<"n", "o">>, <<>>}

\* ids the operator passes to delete_tenant_schema: a missing one, or a
\* tenant whose schema is not the public schema that holds the registry
DeletableIds == {t.id : t \in {u \in tenants : u.schema_name # PUBLIC_SCHEMA_NAME}}

\* management command delete_tenant_schema, Command.handle: without --force
\* the answer to input() is read and anything but yes (in any case) cancels;
\* with --force input() is not called; then DROP SCHEMA IF EXISTS ... CASCADE
delete_tenant_schema ==
    /\ Idle
    /\ \E tenant_id \in DeletableIds \cup {MissingId}, force \in BOOLEAN,
          confirm \in Answers :
          LET found == {t \in tenants : t.id = tenant_id}
              op == IF force THEN "delete_tenant_schema --force"
                    ELSE "delete_tenant_schema"
          IN  IF found = {}
              THEN /\ stdin' = NotAsked
                   /\ UNCHANGED <<schemas, tables>>
                   /\ last' = Operation(op, {}, {}, <<>>, FALSE, "none", "does not exist")
              ELSE IF ~force /\ lower(confirm) # <<"y", "e", "s">>
              THEN /\ stdin' = confirm
                   /\ UNCHANGED <<schemas, tables>>
                   /\ last' = Operation(op, {tenant_id}, found, <<>>, FALSE, "none",
                                        "Operation cancelled")
              ELSE /\ stdin' = IF force THEN NotAsked ELSE confirm
                   /\ schemas' = schemas \ {TenantById(tenant_id).schema_name}
                   /\ tables' = tables \ {TenantById(tenant_id).schema_name}
                   /\ last' = Operation(op, {tenant_id}, found, <<>>, FALSE, "none",
                                        "Dropped schema")
    /\ UNCHANGED <<tenants, domains, tenant_user, departments, search_path, runs, id_seq,
                   AuthVars, LockVars, ContextVars>>

(***************************************************************************)
(* Views that look up tenants                                              *)
(***************************************************************************)
\* utils.get_tenant_from_request(request): request.tenant when the request
\* has the attribute (TenantMainMiddleware sets it), else the tenant of the
\* user's TenantUser, else Tenant.objects.get(domain=host, is_active=True),
\* which raises FieldError because Tenant has no field is_active
get_tenant_from_request(req) ==
    IF req.tenant # None THEN [exc |-> "none", tenant |-> req.tenant]
    ELSE IF req.user # AnonymousUser /\ tenant_user[req.user] # None
    THEN [exc |-> "none", tenant |-> tenant_user[req.user]]
    ELSE [exc |-> "FieldError", tenant |-> None]

LoginPath == <<"/", "api", "/", "v1", "/", "auth", "/", "login", "/">>

\* tenant_domain and tenant_id of the body of POST /api/v1/auth/login/
BodyDomains == {"", "lagosgeneral.smartcarehms.local", "nowhere.example"}

BodyTenantIds == {NoHeader, <<"2">>}

\* truth value of the expression tenant.is_active in authenticate_tenant_user:
\* the attribute is the bound method Tenant.is_active, and a method is true
tenant_is_active(tenant) == TRUE

\* AuthenticationView.post: authenticate_tenant_user when the body names a
\* tenant_domain or X-Tenant-ID / the body names a tenant_id, else
\* authenticate_global_user.  credentials_valid is LoginSerializer.is_valid().
AuthenticationView_post ==
    /\ pc = "view"
    /\ request.path = LoginPath
    /\ pc' = "idle"
    /\ \E tenant_domain \in BodyDomains, body_tenant_id \in BodyTenantIds,
          credentials_valid \in BOOLEAN :
          LET tenant_id == IF request.header \notin {NoHeader, <<>>} THEN request.header
                           ELSE body_tenant_id
              by_id == tenant_id # NoHeader /\ tenant_domain = ""
              parsed == int(tenant_id)
              found == IF by_id
                       THEN IF parsed.ok THEN {t \in tenants : t.id = parsed.val} ELSE {}
                       ELSE {t \in tenants : t.domain = tenant_domain}
          IN  IF tenant_id = NoHeader /\ tenant_domain = ""
              THEN /\ response' = IF credentials_valid THEN "200" ELSE "400"
                   /\ last' = Operation("authenticate_global_user", {}, {}, <<>>,
                                        credentials_valid, "none", "")
                   /\ UNCHANGED connection
              ELSE IF found = {}
              THEN /\ response' = "404"
                   /\ last' = Operation("authenticate_tenant_user", {}, {}, <<>>, FALSE,
                                        "none", "Tenant not found")
                   /\ UNCHANGED connection
              ELSE
              LET tenant == CHOOSE t \in found : TRUE
              IN  IF ~tenant_is_active(tenant)
                  THEN /\ response' = "400"
                       /\ last' = Operation("authenticate_tenant_user", {tenant.id},
                                            {tenant}, <<>>, FALSE, "none",
                                            "Tenant is inactive")
                       /\ UNCHANGED connection
                  ELSE /\ response' = IF credentials_valid THEN "200" ELSE "400"
                       /\ connection' = set_schema_to_public
                       /\ last' = Operation("authenticate_tenant_user", {tenant.id},
                                            {tenant}, <<>>, credentials_valid, "none", "")
    /\ UNCHANGED <<Registry, thread_tenant, request, outcome, steps, prev>>

Next ==
    \/ tenants_setup
    \/ setup_test_tenant
    \/ TenantViewSet_create
    \/ add_tenant_domain
    \/ link_tenant_user
    \/ StartRequest
    \/ TenantMainMiddleware
    \/ HeaderTenantMiddleware
    \/ get_response

Spec == Init /\ [][Next]_vars

(***************************************************************************)
(* Administration of the registry and of the schemas, no request in        *)
(* flight.                                                                 *)
(***************************************************************************)
AdminNext ==
    \/ tenants_setup
    \/ TenantViewSet_create
    \/ TenantViewSet_update
    \/ suspend
    \/ activate
    \/ cancel
    \/ activate_tenants
    \/ suspend_tenants
    \/ cancel_subscriptions
    \/ TenantAdmin_change
    \/ call_create_tenant_schema
    \/ Command_handle

AdminSpec == Init /\ [][AdminNext]_vars

(***************************************************************************)
(* Tenants and their schemas from creation to teardown.                    *)
(***************************************************************************)
TeardownNext ==
    \/ tenants_setup
    \/ TenantViewSet_create
    \/ TenantViewSet_update
    \/ call_create_tenant_schema
    \/ Command_handle
    \/ TenantViewSet_destroy
    \/ delete_tenant_schema

TeardownSpec == Init /\ [][TeardownNext]_vars

(***************************************************************************)
(* A deployment in service: the registry as tenants_setup, one tenant      *)
(* created through the API, add_tenant_domain and the link of the user to  *)
(* that tenant leave it; requests of browsers and of API clients, logins,  *)
(* and lifecycle actions.                                                  *)
(***************************************************************************)
Deployed ==
    /\ tenants = {
          save([id |-> 1, name |-> <<"P", "u", "b", "l", "i", "c">>,
                code |-> <<"P", "U", "B", "L", "I", "C">>,
                schema_name |-> PUBLIC_SCHEMA_NAME, domain |-> "",
                subscription_status |-> TRIAL, subscription_end_date |-> None,
                random_part |-> <<>>]),
          save([id |-> 2, name |-> <<"L", "a", "g", "o", "s">>, code |-> <<>>,
                schema_name |-> <<>>, domain |-> "lagosgeneral.smartcarehms.local",
                subscription_status |-> TRIAL, subscription_end_date |-> None,
                random_part |-> <<"0", "4", "1", "7">>]) }
    /\ domains = {[domain |-> "localhost", tenant |-> 1],
                  [domain |-> "lagosgeneral.smartcarehms.local", tenant |-> 2]}
    /\ tenant_user = [u \in Users |-> 2]
    /\ DEBUG = FALSE
    /\ connection = set_schema_to_public
    /\ thread_tenant = None
    /\ request = NoRequest
    /\ pc = "idle"
    /\ outcome = NoOutcome
    /\ steps = <<>>
    /\ response = "none"
    /\ prev = NoOutcome
    /\ schemas = {PUBLIC_SCHEMA_NAME}
    /\ tables = {PUBLIC_SCHEMA_NAME}
    /\ search_path = PUBLIC_SCHEMA_NAME
    /\ departments = {2}
    /\ last = NoOperation
    /\ runs = [p \in Procs |-> NoRun]
    /\ id_seq = 2
    /\ stdin = NotAsked

ServiceInit == Deployed /\ Quiet

ServiceNext ==
    \/ suspend
    \/ activate
    \/ cancel
    \/ activate_tenants
    \/ suspend_tenants
    \/ cancel_subscriptions
    \/ StartRequest
    \/ StartBearerRequest
    \/ TenantMainMiddleware
    \/ HeaderTenantMiddleware
    \/ get_response
    \/ AuthenticationView_post

ServiceSpec == ServiceInit /\ [][ServiceNext]_vars

TypeOK ==
    /\ pc \in {"idle", "TenantMainMiddleware", "HeaderTenantMiddleware", "view"}
    /\ response \in {"none", "200", "400", "500", "404"}
    /\ Cardinality(tenants) <= MaxTenants

(***************************************************************************)
(* Properties                                                              *)
(***************************************************************************)
\* the resolver has finished for the request in `request`: the request is at
\* the view, or it has just ended
ResolutionEnded == pc = "view" \/ (pc = "idle" /\ response # "none")

\* HeaderTenantMiddleware.process_request ran for the request in `request`
HeaderRan == steps # <<>>

NonPublicSchemaTenant(id) ==
    id # None /\ TenantById(id).schema_name # PUBLIC_SCHEMA_NAME

\* the schema the outcome of a resolution designates
OutcomeSchema(o) ==
    IF o.kind = "tenant" THEN TenantById(o.tenant).schema_name ELSE PUBLIC_SCHEMA_NAME

\* C1: whenever HeaderTenantMiddleware.process_request has returned without
\* error, so that the request is at the downstream handler, the outcome is a
\* tenant or public, and the connection's schema is the resolved tenant's
\* schema_name (header, claim, membership or domain resolution) or public.
C1_SchemaMatchesOutcome ==
    pc = "view" =>
        /\ outcome.kind \in {"tenant", "public"}
        /\ outcome.kind = "tenant" =>
              /\ outcome.by \in {"header", "fallback", "claim", "membership", "domain"}
              /\ connection.schema_name = TenantById(outcome.tenant).schema_name
              /\ connection.tenant = outcome.tenant
        /\ outcome.kind = "public" =>
              /\ connection.schema_name = PUBLIC_SCHEMA_NAME
              /\ connection.tenant = None

C1_Witness ==
    /\ pc = "view"
    /\ outcome.kind = "tenant"
    /\ outcome.by = "membership"
    /\ NonPublicSchemaTenant(outcome.tenant)
    /\ request.tenant # outcome.tenant
    /\ connection.schema_name = TenantById(outcome.tenant).schema_name

\* C2: once the resolver has finished for a request that follows a request
\* resolved to a tenant, the connection's schema equals that earlier tenant's
\* schema only if the outcome of the present request designates the same
\* schema; a request that ends in a resolution error designates public.
C2_SecondRequestOwnResolution ==
    (ResolutionEnded /\ prev.kind = "tenant"
        /\ connection.schema_name = TenantById(prev.tenant).schema_name)
    => OutcomeSchema(outcome) = TenantById(prev.tenant).schema_name

C2_Witness ==
    /\ pc = "idle"
    /\ response = "404"
    /\ prev.kind = "tenant"
    /\ NonPublicSchemaTenant(prev.tenant)
    /\ connection.schema_name = PUBLIC_SCHEMA_NAME

\* C3: when a request has ended (response sent, resolution error, exception
\* in the handler) the connection's schema is public again.
C3_SchemaResetAtEnd ==
    (pc = "idle" /\ response # "none") => connection.schema_name = PUBLIC_SCHEMA_NAME

\* C4: while a request is at the handler, get_current_tenant() is the tenant
\* resolved for that request, and None when the request resolved to public.
C4_CurrentTenantIsThisRequests ==
    pc = "view" =>
        get_current_tenant = (IF outcome.kind = "tenant" THEN outcome.tenant ELSE None)

\* C5: a request on a public path prefix ends its resolution as public, with
\* the connection on the public schema and no tenant lookup made for it.
C5_PublicPathAlwaysPublic ==
    (ResolutionEnded /\ is_public(request.path)) =>
        /\ outcome.kind = "public"
        /\ connection.schema_name = PUBLIC_SCHEMA_NAME
        /\ Len(steps) = 1

\* the X-Tenant-ID header of the request is the id of an existing tenant
ValidHeader(req) ==
    /\ req.header # NoHeader
    /\ int(req.header).ok
    /\ int(req.header).val \in TenantIds

\* C6: a request on a non-public path whose X-Tenant-ID is the id of an
\* existing tenant ends its resolution with that tenant and that tenant's
\* schema, whatever the user, the fallback tenant and the hostname.
C6_ValidHeaderWins ==
    (ResolutionEnded /\ ~is_public(request.path) /\ ValidHeader(request)) =>
        /\ outcome.kind = "tenant"
        /\ outcome.tenant = int(request.header).val
        /\ connection.schema_name = TenantById(int(request.header).val).schema_name

\* the X-Tenant-ID header was sent and is malformed or names no tenant
BadHeader(req) == req.header # NoHeader /\ ~ValidHeader(req)

\* C7: when the resolver ran on a non-public path with a malformed or unknown
\* X-Tenant-ID, the header step did not resolve and raised nothing, it left
\* the thread-local tenant and the schema as they were, the fallback step ran
\* next, and the request ended as the same request without the header would.
C7_BadHeaderTreatedAsAbsent ==
    (HeaderRan /\ ~is_public(request.path) /\ BadHeader(request)) =>
        LET before == TenantMain_process_request(request, connection).connection
            absent == process_request([request EXCEPT !.header = NoHeader],
                                      before, steps[1].tenant)
        IN  /\ Len(steps) >= 3
            /\ steps[2].step = "header" /\ ~steps[2].hit
            /\ steps[2].schema_name = steps[1].schema_name
            /\ steps[2].tenant = steps[1].tenant
            /\ steps[3].step = "fallback"
            /\ outcome.by # "header"
            /\ outcome.kind = absent.kind /\ outcome.tenant = absent.tenant
            /\ connection = absent.connection
            /\ thread_tenant = absent.thread_tenant

C7_Witness ==
    /\ pc = "view"
    /\ ~is_public(request.path)
    /\ request.header = <<"1", "a">>
    /\ outcome.by = "membership"
    /\ Len(steps) = 5

\* the hostname of the request has no TenantDomain row
UnknownHost(req) == ~ \E d \in domains : d.domain = req.host

\* C8: an unauthenticated request on a non-public path whose X-Tenant-ID names
\* no existing tenant and whose hostname has no TenantDomain never gets to a
\* handler: it ends with the tenant-not-found error, whatever tenants exist.
C8_NotFoundNotSilentFallback ==
    (request # NoRequest /\ pc # "TenantMainMiddleware"
        /\ request.user = AnonymousUser /\ ~is_public(request.path)
        /\ int(request.header).ok /\ int(request.header).val \notin TenantIds
        /\ UnknownHost(request))
    => (pc = "idle" /\ response = "404" /\ outcome.kind = "error")

C8_Witness ==
    /\ pc = "idle" /\ response = "404" /\ outcome.kind = "error"
    /\ request.user = AnonymousUser /\ ~is_public(request.path)
    /\ request.header = <<"7">>
    /\ UnknownHost(request)
    /\ \E t \in tenants : t.code = TEST
    /\ domains # {}

\* the outcome the precedence order public path, header, fallback code, token
\* claim, membership, authenticated-public, domain gives a request
OrderedOutcome(req) ==
    IF is_public(req.path) THEN [kind |-> "public", tenant |-> None]
    ELSE IF ValidHeader(req) THEN [kind |-> "tenant", tenant |-> int(req.header).val]
    ELSE IF \E t \in tenants : t.code = TEST
         THEN [kind |-> "tenant", tenant |-> (CHOOSE t \in tenants : t.code = TEST).id]
    ELSE IF req.user # AnonymousUser /\ user_tenant_id(req) \in TenantIds
         THEN [kind |-> "tenant", tenant |-> user_tenant_id(req)]
    ELSE IF req.user # AnonymousUser /\ tenant_user[req.user] # None
         THEN [kind |-> "tenant", tenant |-> tenant_user[req.user]]
    ELSE IF req.user # AnonymousUser THEN [kind |-> "public", tenant |-> None]
    ELSE IF ~UnknownHost(req)
         THEN [kind |-> "tenant",
               tenant |-> (CHOOSE d \in domains : d.domain = req.host).tenant]
    ELSE [kind |-> "error", tenant |-> None]

\* C9: every request ends its resolution in the one outcome that the fixed
\* order of the steps gives it, the first step that applies deciding.
C9_FirstApplicableStepDecides ==
    ResolutionEnded =>
        /\ outcome.kind \in {"public", "tenant", "error"}
        /\ outcome.kind = OrderedOutcome(request).kind
        /\ outcome.tenant = OrderedOutcome(request).tenant

\* C10: with DEBUG off no request is resolved by the TEST fallback step.
C10_NoFallbackInProduction ==
    ~DEBUG => outcome.by # "fallback"

\* C11: a request on a non-public path without valid X-Tenant-ID, with no TEST
\* tenant in the registry, whose bearer token carries the tenant_id claim of
\* an existing tenant, reaches the handler resolved to that tenant by the
\* claim step.
C11_TokenClaimResolves ==
    (pc = "view" /\ ~is_public(request.path) /\ ~ValidHeader(request)
        /\ ~(\E t \in tenants : t.code = TEST)
        /\ request.token \in TenantIds)
    => /\ outcome.kind = "tenant"
       /\ outcome.tenant = request.token
       /\ outcome.by = "claim"

\* the lifecycle actions of the API and of the admin site
LifecycleOps == {"suspend", "activate", "cancel",
                 "activate_tenants", "suspend_tenants", "cancel_subscriptions"}

\* the status a lifecycle action asks for
Target(op) ==
    CASE op \in {"suspend", "suspend_tenants"} -> SUSPENDED
      [] op \in {"activate", "activate_tenants"} -> ACTIVE
      [] op \in {"cancel", "cancel_subscriptions"} -> CANCELLED

\* the transitions of the lifecycle state machine
AllowedTransitions ==
    {<<TRIAL, ACTIVE>>, <<TRIAL, EXPIRED>>, <<ACTIVE, SUSPENDED>>,
     <<ACTIVE, CANCELLED>>, <<SUSPENDED, ACTIVE>>, <<SUSPENDED, CANCELLED>>}
    \cup {<<status, CANCELLED>> : status \in SubscriptionStatus}

\* C12: right after a lifecycle action, every tenant it was applied to either
\* made an allowed transition and now has the requested status, or the action
\* ended with an error, the tenant's status is what it was, and no AuditLog
\* row was written.
C12_OnlyAllowedTransitions ==
    last.op \in LifecycleOps =>
        \A row \in last.before :
            IF <<row.subscription_status, Target(last.op)>> \in AllowedTransitions
            THEN /\ last.error = "none"
                 /\ TenantById(row.id).subscription_status = Target(last.op)
            ELSE /\ last.error # "none"
                 /\ TenantById(row.id).subscription_status = row.subscription_status
                 /\ last.audit_log = <<>>

\* C13: right after a lifecycle action, a tenant that was cancelled is still
\* cancelled, and a tenant that was expired is not trial, active or suspended.
C13_TerminalStatuses ==
    last.op \in LifecycleOps =>
        \A row \in last.before :
            /\ row.subscription_status = CANCELLED =>
                  TenantById(row.id).subscription_status = CANCELLED
            /\ row.subscription_status = EXPIRED =>
                  TenantById(row.id).subscription_status \notin {TRIAL, ACTIVE, SUSPENDED}

\* the tenant of this id has been suspended or cancelled
Stopped(id) ==
    id \in TenantIds /\ TenantById(id).subscription_status \in {SUSPENDED, CANCELLED}

C15_NoTokensForStoppedTenant ==
    (last.op = "authenticate_tenant_user" /\ last.tokens) =>
        \A row \in last.before : row.subscription_status \notin {SUSPENDED, CANCELLED}

\* C16: in every step, a tenant whose subscription_status changes is one of
\* the tenants a lifecycle action (or the status field of the admin change
\* form) was applied to in that step, and a tenant that enters the registry
\* has status trial; so creation with any status in the body, update,
\* creation of the admin user, resolution and provisioning leave every
\* status as it is.
C16_StatusChangesOnlyByLifecycle ==
    [][ /\ \A t \in tenants, u \in tenants' :
              (u.id = t.id /\ u.subscription_status # t.subscription_status)
              => (last'.op \in LifecycleOps \cup {"change"} /\ t.id \in last'.tenant)
        /\ \A u \in tenants' : u.id \notin TenantIds => u.subscription_status = TRIAL
      ]_vars

C16_Witness ==
    /\ last.op = "update"
    /\ \E row \in last.before :
          /\ row.id \in departments
          /\ row.subscription_status = SUSPENDED
          /\ TenantById(row.id).subscription_status = SUSPENDED
          /\ TenantById(row.id).subscription_end_date # row.subscription_end_date
    /\ schemas # {PUBLIC_SCHEMA_NAME}

\* C17 as stated: for every tenant and every current date,
\* days_remaining_in_trial is max(0, subscription_end_date - current date)
\* when an end date is set and 30 when none is set.
C17_DaysRemainingEveryTenant ==
    \A t \in tenants, today \in Days :
        days_remaining_in_trial(t, today) =
            (IF t.subscription_end_date = None THEN 30
             ELSE Max(0, t.subscription_end_date - today))

\* C17: for every tenant in trial and every current date,
\* days_remaining_in_trial is max(0, subscription_end_date - current date)
\* when an end date is set and 30 when none is set; for a tenant that is not
\* in trial it is 0; it is never negative.
C17_DaysRemainingInTrial ==
    \A t \in tenants, today \in Days :
        /\ is_trial(t) =>
              days_remaining_in_trial(t, today) =
                  (IF t.subscription_end_date = None THEN 30
                   ELSE Max(0, t.subscription_end_date - today))
        /\ ~is_trial(t) => days_remaining_in_trial(t, today) = 0
        /\ days_remaining_in_trial(t, today) >= 0

C17_Witness ==
    /\ \E t \in tenants :
          /\ is_trial(t) /\ t.subscription_end_date = 2
          /\ days_remaining_in_trial(t, 1) = 1
          /\ days_remaining_in_trial(t, MaxDay) = 0
    /\ \E t \in tenants :
          /\ t.subscription_status = ACTIVE /\ t.subscription_end_date = 2
          /\ days_remaining_in_trial(t, 1) = 0

\* C18: a tenant create request either leaves the registry, the schemas and
\* the departments as they were, or adds one Tenant row together with its
\* schema and its default departments.
C18_CreateAllOrNothing ==
    [][ TenantViewSet_create =>
          \/ /\ tenants' = tenants
             /\ schemas' = schemas
             /\ departments' = departments
          \/ \E t \in tenants' \ tenants :
                /\ tenants' = tenants \cup {t}
                /\ t.schema_name \in schemas'
                /\ t.id \in departments'
      ]_vars

\* C19: right after a run of a provisioning routine for a tenant, a second
\* run of the same routine for that tenant would raise nothing, would leave
\* the tenant's schema in place, and would leave the set of schemas and the
\* search path as the first run left them.
C19_SecondCreateIsNoOp ==
    \A t \in tenants :
        /\ (last.op = "create_tenant_schema" /\ last.tenant = {t.id})
           => LET second == create_tenant_schema(t, schemas, tables)
              IN  /\ second.error = "none"
                  /\ t.schema_name \in second.schemas
                  /\ second.schemas = schemas
                  /\ second.search_path = search_path
        /\ (last.op = "Command.handle" /\ last.tenant = {t.id})
           => LET second == handle(t.id, schemas, tables, search_path)
              IN  /\ second.error = "none"
                  /\ t.schema_name \in second.schemas
                  /\ second.schemas = schemas
                  /\ second.search_path = search_path

\* C20: a provisioning run for a tenant that ended without error did not end
\* on a schema that lacks its tables.
C20_NoSuccessOnPartialSchema ==
    (last.op \in {"create_tenant_schema", "Command.handle"}
        /\ last.error = "none" /\ last.tenant # {})
    => \A row \in last.before : row.schema_name \in tables

(***************************************************************************)
(* The create_tenant_schema command run by several processes at once.      *)
(* Each process has its own session; the command opens no transaction and  *)
(* takes no lock, so every statement is committed when it returns and the  *)
(* statements of two runs interleave freely.                               *)
(***************************************************************************)
Worker == <<connection, thread_tenant, request, pc, outcome, steps, response, prev>>

RunFrame == <<tenants, domains, tenant_user, DEBUG, departments, last, Worker,
              tables, search_path, id_seq, stdin, AuthVars, LockVars, ContextVars>>

\* tenant = Tenant.objects.get(id=tenant_id); except Tenant.DoesNotExist:
\* write the message and return
run_get ==
    /\ \E p \in Procs, tenant_id \in TenantIds \cup {MissingId} :
          /\ runs[p].pc = "idle"
          /\ runs' = [runs EXCEPT ![p] =
                IF tenant_id \in TenantIds
                THEN Run("check", tenant_id, PUBLIC_SCHEMA_NAME, "none", "")
                ELSE Run("done", tenant_id, PUBLIC_SCHEMA_NAME, "none", "does not exist")]
    /\ UNCHANGED <<RunFrame, schemas>>

\* SELECT schema_name FROM information_schema.schemata WHERE schema_name = %s;
\* if cursor.fetchone(): write 'already exists' and return
run_check ==
    /\ \E p \in Procs :
          /\ runs[p].pc = "check"
          /\ runs' = [runs EXCEPT ![p] =
                IF TenantById(runs[p].tenant_id).schema_name \in schemas
                THEN [runs[p] EXCEPT !.pc = "done", !.message = "already exists"]
                ELSE [runs[p] EXCEPT !.pc = "create"]]
    /\ UNCHANGED <<RunFrame, schemas>>

\* CREATE SCHEMA <schema_name>: raises ProgrammingError (duplicate schema)
\* when the schema exists by now
run_create ==
    /\ \E p \in Procs :
          /\ runs[p].pc = "create"
          /\ LET schema_name == TenantById(runs[p].tenant_id).schema_name
             IN  IF schema_name \in schemas
                 THEN /\ runs' = [runs EXCEPT ![p] = [runs[p] EXCEPT
                                     !.pc = "done", !.error = "ProgrammingError"]]
                      /\ UNCHANGED schemas
                 ELSE /\ runs' = [runs EXCEPT ![p] = [runs[p] EXCEPT
                                     !.pc = "set_search_path",
                                     !.message = "Created schema"]]
                      /\ schemas' = schemas \cup {schema_name}
    /\ UNCHANGED RunFrame

\* SET search_path TO <schema_name>
run_set_search_path ==
    /\ \E p \in Procs :
          /\ runs[p].pc = "set_search_path"
          /\ runs' = [runs EXCEPT ![p] = [runs[p] EXCEPT
                         !.pc = "migrate",
                         !.search_path = TenantById(runs[p].tenant_id).schema_name]]
    /\ UNCHANGED <<RunFrame, schemas>>

\* call_command('migrate', database='default', schema_name=..., ...): raises
\* TypeError, migrate has no option schema_name; the command ends there
run_migrate ==
    /\ \E p \in Procs :
          /\ runs[p].pc = "migrate"
          /\ runs' = [runs EXCEPT ![p] = [runs[p] EXCEPT
                         !.pc = "done", !.error = "TypeError"]]
    /\ UNCHANGED <<RunFrame, schemas>>

\* the process ends, and the command can be started again
run_exit ==
    /\ \E p \in Procs :
          /\ runs[p].pc = "done"
          /\ runs' = [runs EXCEPT ![p] = NoRun]
    /\ UNCHANGED <<RunFrame, schemas>>

ProvisionNext ==
    \/ run_get
    \/ run_check
    \/ run_create
    \/ run_set_search_path
    \/ run_migrate
    \/ run_exit

ProvisionSpec == ServiceInit /\ [][ProvisionNext]_vars

\* the run is past the exists-check of its tenant
PastCheck(p) == runs[p].pc \in {"create", "set_search_path", "migrate"}

\* C21: of two create_tenant_schema runs for the same tenant, at most one is
\* past the exists-check at any time, and no run ends with the error of a
\* duplicate schema.
C21_ProvisioningSerialized ==
    /\ \A p, q \in Procs :
          (p # q /\ PastCheck(p) /\ PastCheck(q))
              => runs[p].tenant_id # runs[q].tenant_id
    /\ \A p \in Procs : runs[p].error # "ProgrammingError"

\* C22: when a schema create operation has ended (utils.create_tenant_schema
\* or the create_tenant_schema command; normal return, already-exists return
\* or exception), the active search path of its session is public.
C22_SearchPathPublicAfterCreate ==
    last.op \in {"create_tenant_schema", "Command.handle"}
        => search_path = PUBLIC_SCHEMA_NAME

DeleteOps == {"delete_tenant_schema", "delete_tenant_schema --force"}

\* C23: the delete_tenant_schema command drops a schema only after the
\* operator was asked and answered yes, whatever the arguments of the
\* invocation, and any other answer leaves the schema in place.
C23_DropOnlyAfterConfirmation ==
    (last.op \in DeleteOps /\ last.message = "Dropped schema")
        => (stdin # NotAsked /\ lower(stdin) = <<"y", "e", "s">>)

\* C24: every schema other than public is the schema of a Tenant row that
\* exists.
C24_NoSchemaWithoutTenant ==
    \A s \in schemas :
        s # PUBLIC_SCHEMA_NAME => \E t \in tenants : t.schema_name = s

\* C25: no two tenants share a schema_name, and no step changes the
\* schema_name of a tenant that exists before and after it.
C25_SchemaNameUniqueImmutable ==
    /\ [](\A t, u \in tenants : t.schema_name = u.schema_name => t = u)
    /\ [][\A t \in tenants : \A u \in tenants' :
              u.id = t.id => u.schema_name = t.schema_name]_vars

C25_Witness ==
    /\ last.op = "update"
    /\ Cardinality(tenants) = MaxTenants
    /\ \E t \in tenants : \E b \in last.before :
          /\ t.id = b.id
          /\ t # b
          /\ t.schema_name = b.schema_name
          /\ t.schema_name = generate_schema_name(t.code)

\* the schema of the connection is the schema of tenant id, resolved for the
\* request
ResolvedTo(id) ==
    /\ outcome.kind = "tenant"
    /\ outcome.tenant = id
    /\ connection.schema_name = TenantById(id).schema_name

\* C26: once the resolver has finished for a request on a non-public path, a
\* request whose X-Tenant-ID names an existing tenant is resolved to that
\* tenant, whatever the membership of the principal; so is, without such a
\* header and without fallback tenant, a request whose token carries the
\* tenant_id of an existing tenant; and a resolution by membership happens
\* only when header, fallback and claim gave no tenant.
C26_NoMembershipCheck ==
    (ResolutionEnded /\ ~is_public(request.path)) =>
        LET fallback == \E t \in tenants : t.code = TEST
        IN  /\ ValidHeader(request) => ResolvedTo(int(request.header).val)
            /\ (~ValidHeader(request) /\ ~fallback /\ request.token \in TenantIds)
                  => ResolvedTo(request.token)
            /\ outcome.by = "membership"
                  => (~ValidHeader(request) /\ ~fallback /\ request.token \notin TenantIds)

\* C27: for every tenant of the registry, the is_active flag read from the
\* row is true when subscription_status is active and false when it is
\* suspended or cancelled.
C27_FlagFollowsStatus ==
    \A t \in tenants :
        /\ t.subscription_status = ACTIVE => tenant_is_active(t)
        /\ t.subscription_status \in {SUSPENDED, CANCELLED} => ~tenant_is_active(t)

(***************************************************************************)
(* Login of a global user with a second factor: POST /api/v1/auth/login/   *)
(* without tenant (AuthenticationView.authenticate_global_user) and POST   *)
(* /api/v1/auth/verify-2fa/ (TwoFAView), both open to anyone (AllowAny).   *)
(***************************************************************************)
\* attempts a counter of failed attempts is followed for
MaxFailed == 6

\* User2FA.TwoFAMethod.choices, the values TwoFASerializer.method accepts
TwoFAMethods == {"totp", "sms", "email", "push"}

\* id of the GlobalUser of the model, and an id that names no user
UserIds == {1, MissingId}

\* a token pair answered by an endpoint: the endpoint, the two_fa_verified
\* claim, and what had been checked when it was issued: the password, in the
\* login flow in progress, and a second-factor code, by the issuing call
Token(by, two_fa_verified, password_checked, code_verified) ==
    [by |-> by, two_fa_verified |-> two_fa_verified,
     password_checked |-> password_checked, code_verified |-> code_verified]

\* TwoFASerializer.validate; code_ok is whether the code of the body is the
\* one pyotp expects.  Only the totp branch looks at the code; sms and email
\* look at the sms_verified / email_verified flag of the row; push has no
\* branch.
TwoFASerializer_validate(user_id, method, code_ok) ==
    IF user_id # 1 THEN [valid |-> FALSE, code_verified |-> FALSE]
    ELSE IF ~two_fa.two_fa_enabled THEN [valid |-> FALSE, code_verified |-> FALSE]
    ELSE IF method = "totp"
    THEN [valid |-> two_fa.totp_secret /\ code_ok,
          code_verified |-> two_fa.totp_secret /\ code_ok]
    ELSE IF method = "sms"
    THEN [valid |-> two_fa.sms_verified, code_verified |-> FALSE]
    ELSE IF method = "email"
    THEN [valid |-> two_fa.email_verified, code_verified |-> FALSE]
    ELSE [valid |-> TRUE, code_verified |-> FALSE]

AuthFrame == <<tenants, domains, tenant_user, DEBUG, departments, last, Worker,
               Database, id_seq, runs, stdin, LockVars, ContextVars>>

\* AuthenticationView.authenticate_global_user; credentials_valid is
\* LoginSerializer.is_valid(), which checks the password
authenticate_global_user ==
    /\ \E credentials_valid \in BOOLEAN :
          IF ~credentials_valid
          THEN /\ flow' = NoFlow
               /\ UNCHANGED issued
          ELSE IF two_fa.two_fa_enabled
          THEN /\ flow' = [password_checked |-> TRUE]
               /\ issued' = issued \cup {Token("login", FALSE, TRUE, FALSE)}
          ELSE /\ flow' = NoFlow
               /\ issued' = issued \cup {Token("login", TRUE, TRUE, FALSE)}
    /\ UNCHANGED <<AuthFrame, two_fa>>

\* TwoFAView.post: tokens with two_fa_verified = True when the serializer is
\* valid, else the failed attempt is counted on the User2FA row of user_id
TwoFAView_post ==
    /\ \E user_id \in UserIds, method \in TwoFAMethods, code_ok \in BOOLEAN :
          LET data == TwoFASerializer_validate(user_id, method, code_ok)
          IN  IF data.valid
              THEN /\ two_fa' = [two_fa EXCEPT !.failed_attempts = 0]
                   /\ issued' = issued \cup
                         {Token("verify-2fa", TRUE, flow.password_checked,
                                data.code_verified)}
                   /\ flow' = NoFlow
              ELSE /\ user_id = 1 => two_fa.failed_attempts < MaxFailed
                   /\ two_fa' = IF user_id = 1
                                THEN [two_fa EXCEPT !.failed_attempts = @ + 1]
                                ELSE two_fa
                   /\ UNCHANGED <<issued, flow>>
    /\ UNCHANGED AuthFrame

AuthInit ==
    /\ Deployed
    /\ two_fa \in {TwoFA(enabled, totp_secret, sms_verified, email_verified, 0) :
                     enabled \in BOOLEAN, totp_secret \in BOOLEAN,
                     sms_verified \in BOOLEAN, email_verified \in BOOLEAN}
    /\ flow = NoFlow
    /\ issued = {}
    /\ LockQuiet
    /\ ContextQuiet

AuthNext ==
    \/ authenticate_global_user
    \/ TwoFAView_post

AuthSpec == AuthInit /\ [][AuthNext]_vars

MaxNow == 60

TickMinutes == 15

\* TenantUser.is_account_locked at time t
is_account_locked(user, t) ==
    IF user.account_locked_until # None THEN t < user.account_locked_until ELSE FALSE

\* TenantUser.lock_account(duration_minutes) at time t
lock_account(user, duration_minutes, t) ==
    [user EXCEPT !.account_locked_until = t + duration_minutes]

\* TenantAuthenticationBackend.authenticate for the username of the row, at
\* time t; password_ok is user.check_password(password).  The row is found
\* by TenantUser.objects.get(username, tenant, is_active=True); a wrong
\* password falls through to 'return None'; the except branch, which counts
\* the attempt and locks at 5, runs when that get() found no active row.
authenticate(user, tenant, password_ok, t) ==
    IF tenant = None THEN [user |-> user, returned |-> "None"]
    ELSE IF user.is_active
    THEN IF password_ok
         THEN IF is_account_locked(user, t)
              THEN [user |-> user, returned |-> "None"]
              ELSE [user |-> [user EXCEPT !.failed_login_attempts = 0,
                                          !.account_locked_until = None],
                    returned |-> "user"]
         ELSE [user |-> user, returned |-> "None"]
    ELSE LET counted == [user EXCEPT !.failed_login_attempts = @ + 1]
         IN  [user |-> IF counted.failed_login_attempts >= 5
                       THEN lock_account(counted, 30, t) ELSE counted,
              returned |-> "None"]

LockFrame == <<tenants, domains, tenant_user, DEBUG, departments, last, Worker,
               Database, id_seq, runs, stdin, AuthVars, ContextVars>>

\* a call of the backend with the tenant of the request set
TenantAuthenticationBackend_authenticate ==
    /\ \E password_ok \in BOOLEAN :
          LET call == authenticate(account, 2, password_ok, now)
          IN  /\ password_ok \/ attempts.failed_in_a_row < MaxFailed
              /\ call.user.failed_login_attempts <= MaxFailed
              /\ account' = call.user
              /\ attempts' = [failed_in_a_row |-> IF password_ok THEN 0
                                                  ELSE attempts.failed_in_a_row + 1,
                              returned |-> call.returned,
                              locked |-> is_account_locked(account, now),
                              at |-> now]
    /\ UNCHANGED <<LockFrame, now>>

\* a call of the backend for a request without tenant: it returns before
\* the row is looked up and no password is compared
authenticate_without_tenant ==
    /\ \E password_ok \in BOOLEAN :
          LET call == authenticate(account, None, password_ok, now)
          IN  /\ account' = call.user
              /\ attempts' = [attempts EXCEPT !.returned = call.returned,
                                              !.locked = is_account_locked(account, now),
                                              !.at = now]
    /\ UNCHANGED <<LockFrame, now>>

\* an administrator activates or deactivates the user
set_is_active ==
    /\ \E value \in BOOLEAN :
          account' = [account EXCEPT !.is_active = value]
    /\ UNCHANGED <<LockFrame, now, attempts>>

\* TenantUser.unlock_account
unlock_account ==
    /\ account' = [account EXCEPT !.account_locked_until = None,
                                  !.failed_login_attempts = 0]
    /\ UNCHANGED <<LockFrame, now, attempts>>

\* time passes
Tick ==
    /\ now + TickMinutes <= MaxNow
    /\ now' = now + TickMinutes
    /\ UNCHANGED <<LockFrame, account, attempts>>

LockInit == Deployed /\ AuthQuiet /\ LockQuiet /\ ContextQuiet

LockNext ==
    \/ TenantAuthenticationBackend_authenticate
    \/ authenticate_without_tenant
    \/ set_is_active
    \/ unlock_account
    \/ Tick

LockSpec == LockInit /\ [][LockNext]_vars

\* C29: when the call made last was the fifth failed password attempt in a
\* row on the account, the account is locked until 30 minutes after that
\* call, and after more such attempts it is still locked; a call that
\* returned the user was made while the account was not locked, and left
\* failed_login_attempts at 0.
C29_LockoutAfterFiveFailures ==
    /\ (attempts.failed_in_a_row = 5 /\ now = attempts.at)
          => account.account_locked_until = attempts.at + 30
    /\ (attempts.failed_in_a_row >= 5 /\ now = attempts.at)
          => is_account_locked(account, now)
    /\ (attempts.returned = "user" /\ now = attempts.at)
          => (~attempts.locked /\ account.failed_login_attempts = 0)

(***************************************************************************)
(* utils.tenant_context.  connection.set_schema(name) of django_tenants    *)
(* makes connection.tenant a FakeTenant that carries the schema name only, *)
(* so that is what utils.get_current_tenant returns after any call of      *)
(* utils.set_current_tenant.  A FakeTenant is written as the negated id of *)
(* the tenant whose schema it carries, the FakeTenant of public as None.   *)
(***************************************************************************)
\* TenantContext objects kept at a time, and with blocks inside one another
MaxContexts == 2

MaxDepth == 2

FakeTenant(schema_name) ==
    IF schema_name = PUBLIC_SCHEMA_NAME THEN None
    ELSE 0 - (CHOOSE t \in tenants : t.schema_name = schema_name).id

\* tenant.schema_name of what connection.tenant holds
schema_name_of(tenant) ==
    IF tenant = None THEN PUBLIC_SCHEMA_NAME
    ELSE IF tenant > 0 THEN TenantById(tenant).schema_name
    ELSE TenantById(0 - tenant).schema_name

\* utils.get_current_tenant(): getattr(connection, 'tenant', None)
utils_get_current_tenant == connection.tenant

\* utils.set_current_tenant(tenant): connection.tenant = tenant, then
\* connection.set_schema(tenant.schema_name), or set_schema('public') when
\* tenant is None
utils_set_current_tenant(tenant) ==
    [schema_name |-> schema_name_of(tenant),
     tenant |-> FakeTenant(schema_name_of(tenant))]

Pipeline == <<thread_tenant, request, pc, outcome, steps, response, prev>>

ContextFrame == <<tenants, domains, tenant_user, DEBUG, departments, last, Pipeline,
                  Database, id_seq, runs, stdin, AuthVars, LockVars>>

\* tenant_context(tenant) returns TenantContext(tenant); __init__ stores the
\* tenant and old_tenant = get_current_tenant()
tenant_context ==
    /\ Cardinality(contexts) < MaxContexts
    /\ \E tenant \in TenantIds \cup {None} :
          contexts' = contexts \cup
              {[tenant |-> tenant, old_tenant |-> utils_get_current_tenant]}
    /\ UNCHANGED <<ContextFrame, connection, blocks, restored>>

\* with <object>: TenantContext.__enter__
TenantContext_enter ==
    /\ Len(blocks) < MaxDepth
    /\ \E self \in contexts :
          /\ connection' = utils_set_current_tenant(self.tenant)
          /\ blocks' = Append(blocks, [self |-> self, before |-> connection])
          /\ contexts' = contexts \ {self}
    /\ UNCHANGED <<ContextFrame, restored>>

\* the innermost block ends, normally or by an exception of its body:
\* TenantContext.__exit__, which lets the exception pass
TenantContext_exit ==
    /\ blocks # <<>>
    /\ \E raised \in BOOLEAN :
          LET block == blocks[Len(blocks)]
              after == utils_set_current_tenant(block.self.old_tenant)
          IN  /\ connection' = after
              /\ blocks' = SubSeq(blocks, 1, Len(blocks) - 1)
              /\ restored' = [exited |-> TRUE, raised |-> raised,
                              before |-> block.before, after |-> after]
    /\ UNCHANGED <<ContextFrame, contexts>>

\* outside any block the middlewares of the next request put the connection
\* on a tenant (connection.set_tenant) or on public
connection_set_tenant ==
    /\ blocks = <<>>
    /\ \E to \in {set_tenant(t) : t \in tenants} \cup {set_schema_to_public} :
          connection' = to
    /\ UNCHANGED <<ContextFrame, ContextVars>>

ContextInit == Deployed /\ AuthQuiet /\ LockQuiet /\ ContextQuiet

ContextNext ==
    \/ tenant_context
    \/ TenantContext_enter
    \/ TenantContext_exit
    \/ connection_set_tenant

ContextSpec == ContextInit /\ [][ContextNext]_vars

\* C30: when a with tenant_context block has exited, normally or by
\* exception, the current tenant and the schema of the connection are those
\* in force right before the block was entered.
C30_ContextRestored ==
    restored.exited => restored.after = restored.before

====
